---------------------------- MODULE Spec2Model ----------------------------
(***************************************************************************)
(* Model of the ballbot-teensy firmware: the USB serial framing/dispatch   *)
(* protocol (serial.rs), the command handlers (events.rs), the log sink    *)
(* (logger.rs) and the main loop (main.rs).                                *)
(*                                                                         *)
(* Two execution contexts share one core: the main context and the         *)
(* USB_OTG1 interrupt routine.  critical_section::with and                 *)
(* cortex_m::interrupt::free mask interrupts, so the interrupt routine     *)
(* can start only while the main context holds no critical section, and    *)
(* the main context does not run while the interrupt routine executes.     *)
(*                                                                         *)
(* Bytes are naturals 0..255, byte strings are sequences of bytes, and     *)
(* text is the sequence of its ASCII codes.                                *)
(***************************************************************************)
EXTENDS Naturals, Sequences, FiniteSets

\* ---------------------------------------------------------------- bounds
\* host messages put on the transport
MaxMsgs == 2
\* send-command / log invocations made directly by the main context
MaxCalls == 1
\* transport read failures
MaxFaults == 1
\* device restarts
MaxBoots == 1
\* bytes of a set_led payload drawn for the handler on its own
MaxPayloadLen == 2

\* ------------------------------------------------------- wire constants
END == 0
READY == 1
FUNCTION_HEADER == 2
RETURN_HEADER == 3
\* main.rs: the heap the allocator is given
HEAP_SIZE == 1024
\* events::reset: `for _ in 1..12`
ResetFirst == 1
ResetEnd == 12

\* ------------------------------------------------------------- text
\* "log"
S_log ==
  <<108, 111, 103>>
\* "set_led"
S_set_led ==
  <<115, 101, 116, 95, 108, 101, 100>>
\* "reset"
S_reset ==
  <<114, 101, 115, 101, 116>>
\* "ERROR"
S_ERROR ==
  <<69, 82, 82, 79, 82>>
\* "WARN"
S_WARN ==
  <<87, 65, 82, 78>>
\* "INFO"
S_INFO ==
  <<73, 78, 70, 79>>
\* "DEBUG"
S_DEBUG ==
  <<68, 69, 66, 85, 71>>
\* "TRACE"
S_TRACE ==
  <<84, 82, 65, 67, 69>>
\* "got function length of "
S_got_function_length ==
  <<103, 111, 116, 32, 102, 117, 110, 99, 116, 105, 111, 110, 32, 108, 101, 110, 103, 116, 104, 32, 111, 102, 32>>
\* "got function "
S_got_function ==
  <<103, 111, 116, 32, 102, 117, 110, 99, 116, 105, 111, 110, 32>>
\* "got data length of "
S_got_data_length ==
  <<103, 111, 116, 32, 100, 97, 116, 97, 32, 108, 101, 110, 103, 116, 104, 32, 111, 102, 32>>
\* "Function "
S_Function ==
  <<70, 117, 110, 99, 116, 105, 111, 110, 32>>
\* " does not exist"
S_does_not_exist ==
  <<32, 100, 111, 101, 115, 32, 110, 111, 116, 32, 101, 120, 105, 115, 116>>
\* "Received invalid event "
S_invalid_event ==
  <<82, 101, 99, 101, 105, 118, 101, 100, 32, 105, 110, 118, 97, 108, 105, 100, 32, 101, 118, 101, 110, 116, 32>>
\* "Error reading from serial: "
S_error_reading ==
  <<69, 114, 114, 111, 114, 32, 114, 101, 97, 100, 105, 110, 103, 32, 102, 114, 111, 109, 32, 115, 101, 114, 105, 97, 108, 58, 32>>
\* "called set_led with argument: false"
S_set_led_false ==
  <<99, 97, 108, 108, 101, 100, 32, 115, 101, 116, 95, 108, 101, 100, 32, 119, 105, 116, 104, 32, 97, 114, 103, 117, 109, 101, 110, 116, 58, 32, 102, 97, 108, 115, 101>>
\* "called set_led with argument: true"
S_set_led_true ==
  <<99, 97, 108, 108, 101, 100, 32, 115, 101, 116, 95, 108, 101, 100, 32, 119, 105, 116, 104, 32, 97, 114, 103, 117, 109, 101, 110, 116, 58, 32, 116, 114, 117, 101>>
\* "called set_led with no argument, defaulting to toggling"
S_set_led_toggle ==
  <<99, 97, 108, 108, 101, 100, 32, 115, 101, 116, 95, 108, 101, 100, 32, 119, 105, 116, 104, 32, 110, 111, 32, 97, 114, 103, 117, 109, 101, 110, 116, 44, 32, 100, 101, 102, 97, 117, 108, 116, 105, 110, 103, 32, 116, 111, 32, 116, 111, 103, 103, 108, 105, 110, 103>>
\* "called reset"
S_called_reset ==
  <<99, 97, 108, 108, 101, 100, 32, 114, 101, 115, 101, 116>>
\* "Toggling led: "
S_toggling_led ==
  <<84, 111, 103, 103, 108, 105, 110, 103, 32, 108, 101, 100, 58, 32>>
\* "ping"
S_ping ==
  <<112, 105, 110, 103>>
\* "hi"
S_hi ==
  <<104, 105>>
\* "foo"
S_foo ==
  <<102, 111, 111>>
\* "IO"
S_IO ==
  <<73, 79>>

\* --------------------------------------------------------- sequences
Min(a, b) ==
  IF a <= b THEN a ELSE b

Take(s, k) ==
  SubSeq(s, 1, k)

Drop(s, k) ==
  SubSeq(s, k + 1, Len(s))

\* vec![0u8; n]
Zeros(n) ==
  [i \in 1..n |-> 0]

Range(s) ==
  {s[i] : i \in 1..Len(s)}

IsPrefix(p, s) ==
  Len(p) <= Len(s) /\ Take(s, Len(p)) = p

\* u16::to_le_bytes
to_le_bytes(n) ==
  <<n % 256, n \div 256>>

\* u16::from_le_bytes
from_le_bytes(b) ==
  b[1] + 256 * b[2]

\* Display of an unsigned integer ("{}")
RECURSIVE ToDec(_)
ToDec(n) ==
  IF n < 10 THEN <<48 + n>> ELSE ToDec(n \div 10) \o <<48 + (n % 10)>>

\* String::from_utf8(..).is_ok(): the well-formed UTF-8 byte sequences
RECURSIVE ValidUtf8(_)
ValidUtf8(s) ==
  IF s = <<>> THEN TRUE
  ELSE LET b == s[1]
           In(i, lo, hi) == i <= Len(s) /\ s[i] >= lo /\ s[i] <= hi
           Cont(i) == In(i, 128, 191)
       IN  IF b <= 127 THEN ValidUtf8(Drop(s, 1))
           ELSE IF b >= 194 /\ b <= 223
             THEN Cont(2) /\ ValidUtf8(Drop(s, 2))
           ELSE IF b = 224
             THEN In(2, 160, 191) /\ Cont(3) /\ ValidUtf8(Drop(s, 3))
           ELSE IF (b >= 225 /\ b <= 236) \/ b = 238 \/ b = 239
             THEN Cont(2) /\ Cont(3) /\ ValidUtf8(Drop(s, 3))
           ELSE IF b = 237
             THEN In(2, 128, 159) /\ Cont(3) /\ ValidUtf8(Drop(s, 3))
           ELSE IF b = 240
             THEN In(2, 144, 191) /\ Cont(3) /\ Cont(4) /\ ValidUtf8(Drop(s, 4))
           ELSE IF b >= 241 /\ b <= 243
             THEN Cont(2) /\ Cont(3) /\ Cont(4) /\ ValidUtf8(Drop(s, 4))
           ELSE IF b = 244
             THEN In(2, 128, 143) /\ Cont(3) /\ Cont(4) /\ ValidUtf8(Drop(s, 4))
           ELSE FALSE

\* ------------------------------------------------- transport endpoint
\* usb::Reader::read into a buffer of n bytes: non-blocking, copies what is
\* buffered (possibly nothing) and leaves the rest of the buffer as it was;
\* `fault` is a transport failure, reported as Err.
ReaderRead(buf, n, fault) ==
  IF fault
    THEN [ok |-> FALSE, data |-> Zeros(n), rest |-> buf]
    ELSE LET k == Min(n, Len(buf))
         IN  [ok |-> TRUE, data |-> Take(buf, k) \o Zeros(n - k), rest |-> Drop(buf, k)]

\* read_n whose buffer starts as 0xFF bytes
read_n_ff(buf, num_bytes, fault) ==
  IF num_bytes = 0
    THEN [ok |-> TRUE, data |-> <<>>, rest |-> buf]
    ELSE [ok |-> ~fault,
          data |-> Take(buf, Min(num_bytes, Len(buf)))
                   \o [i \in 1..(num_bytes - Min(num_bytes, Len(buf))) |-> 255],
          rest |-> IF fault THEN buf ELSE Drop(buf, Min(num_bytes, Len(buf)))]

\* BlockingReader::read_n
read_n(buf, num_bytes, fault) ==
  IF num_bytes = 0
    THEN [ok |-> TRUE, data |-> <<>>, rest |-> buf]
    ELSE ReaderRead(buf, num_bytes, fault)

\* vec![0u8; n] on the HEAP_SIZE-byte heap: a request larger than the heap
\* ends in the alloc_error_handler
AllocFails(n) ==
  n > HEAP_SIZE

\* BlockingReader::read_n_blocking, once its buffer is allocated, spins in
\* `while self.read(&mut data)? == 0 {}` exactly while this holds
Spinning(buf, num_bytes, fault) ==
  num_bytes # 0 /\ ~AllocFails(num_bytes) /\ ~fault /\ buf = <<>>

\* BlockingReader::read_n_blocking, once it returns: the first read that
\* yields at least one byte ends the loop
read_n_blocking(buf, num_bytes, fault) ==
  IF num_bytes = 0
    THEN [ok |-> TRUE, data |-> <<>>, rest |-> buf]
    ELSE ReaderRead(buf, num_bytes, fault)

\* --------------------------------------------------- protocol channel
\* call without the ready check
call_ungated(rdy, function, data) ==
  <<FUNCTION_HEADER, Len(function)>> \o function
  \o to_le_bytes(Len(data) % 65536) \o data \o <<END>>

\* call that leaves out the End-marker
call_without_end(rdy, function, data) ==
  IF rdy
    THEN <<FUNCTION_HEADER, Len(function)>> \o function
         \o to_le_bytes(Len(data) % 65536) \o data
    ELSE <<>>

\* call with the payload length written high byte first
call_big_endian(rdy, function, data) ==
  IF rdy
    THEN <<FUNCTION_HEADER, Len(function)>> \o function
         \o <<(Len(data) % 65536) \div 256, Len(data) % 256>> \o data \o <<END>>
    ELSE <<>>

\* SerialComm::call: the bytes it writes to tx
call(rdy, function, data) ==
  IF rdy
    THEN <<FUNCTION_HEADER, Len(function)>> \o function
         \o to_le_bytes(Len(data) % 65536) \o data \o <<END>>
    ELSE <<>>

\* SerialComm::call: `function.len().try_into().expect(..)`
CallPanics(rdy, function) ==
  rdy /\ Len(function) > 255

\* return_event with a length byte before the reply
return_event_with_len(d) ==
  <<RETURN_HEADER, Len(d) % 256>> \o d

\* SerialComm::return_event: the bytes it writes to tx
return_event(d) ==
  <<RETURN_HEADER>> \o d

\* ready without the reply
ready_write_nothing ==
  <<>>

\* SerialComm::ready: the byte it writes to tx
ready_write ==
  <<READY>>

\* ready toggling the flag
ready_flag_toggle(old) ==
  ~old

\* SerialComm::ready: the value it stores in the ready flag
ready_flag(old) ==
  TRUE

\* ------------------------------------------------------------ log sink
\* the payload without the length of the level
LogDataNoLevelLen(level, content) ==
  level \o to_le_bytes(Len(content) % 65536) \o content

\* SerialLogger::log: the payload built from a record
LogData(level, content) ==
  <<Len(level) % 256>> \o level \o to_le_bytes(Len(content) % 65536) \o content

\* SerialLogger::enabled
enabled(sc) ==
  sc = "Some"

\* SerialLogger::log: the bytes that reach tx
log(sc, rdy, rec) ==
  IF enabled(sc) THEN call(rdy, S_log, LogData(rec.level, rec.content)) ELSE <<>>

Rec(level, content) ==
  [level |-> level, content |-> content]

\* ------------------------------------------------------------ handlers
\* set_led that turns the indicator on for the byte 1 only
set_led_only_one(l, d) ==
  IF d # <<>>
    THEN (IF d[1] = 1 THEN TRUE ELSE FALSE)
    ELSE ~l

\* events::set_led: the indicator afterwards
set_led(l, d) ==
  IF d # <<>>
    THEN (IF d[1] = 0 THEN FALSE ELSE TRUE)
    ELSE ~l

\* events::set_led: the trace! record it emits
set_led_trace(d) ==
  IF d # <<>>
    THEN (IF d[1] = 0 THEN Rec(S_TRACE, S_set_led_false) ELSE Rec(S_TRACE, S_set_led_true))
    ELSE Rec(S_TRACE, S_set_led_toggle)

\* the range of a loop that includes its end
ResetLoopRunsInclusive(n) ==
  ResetFirst + n <= ResetEnd

\* events::reset: `for _ in 1..12` runs again after n iterations
ResetLoopRuns(n) ==
  ResetFirst + n < ResetEnd

\* --------------------------------------------------------- host inputs
\* A Function-call frame as the host encodes it
FunctionFrame(name, payload) ==
  <<FUNCTION_HEADER, Len(name)>> \o name
  \o <<Len(payload) % 256, Len(payload) \div 256>> \o payload \o <<END>>

\* set_led payloads the host sends
LedPayloads ==
  {<<1>>, <<0>>, <<>>}

\* names the host sends that are in no command table entry
UnknownNames ==
  {S_foo, <<255>>, <<>>}

\* the start of a frame with an empty name that announces a payload one byte
\* larger than the heap
OversizeFrame ==
  <<FUNCTION_HEADER, 0>> \o to_le_bytes(HEAP_SIZE + 1)

\* what the host may put on the transport as one message
HostMessages ==
  {<<READY>>, <<END>>, <<9, 7>>, <<RETURN_HEADER, READY, FUNCTION_HEADER>>,
   OversizeFrame}
  \cup {FunctionFrame(S_set_led, p) : p \in LedPayloads}
  \cup {FunctionFrame(S_reset, <<>>)}
  \cup {FunctionFrame(n, <<5>>) : n \in UnknownNames}

\* what the main context passes to send-command
CallInputs ==
  {<<S_ping, <<7, 8>>>>, <<<<>>, <<>>>>, <<S_hi, Zeros(300)>>,
   <<Zeros(256), <<>>>>}

\* ---------------------------------------------------------------- state
VARIABLES
  pc,            \* main context: where it is
  cs,            \* critical sections the main context holds (nesting depth)
  isr,           \* USB_OTG1: "idle" or "polling"
  wire,          \* bytes in the physical USB FIFO, not yet polled
  rx,            \* usb::Reader: bytes buffered for read
  tx,            \* usb::Writer: bytes written and not yet flushed to the host
  ready,         \* SerialComm.ready
  led,           \* the indicator (pin 13)
  serial_comm,   \* SERIAL_LOGGER.serial_comm: "None" or "Some"
  count,         \* main: tick counter
  function_len,  \* read: locals
  function,
  data_len,
  data,
  result,
  call_function, \* call: arguments of the call in progress
  call_data,
  record,        \* log: the record handed to the Log Sink, <<>> when none
  pending,       \* host: rest of the message it is sending
  msgs,          \* host messages started
  calls,         \* send-command invocations and ticks of the main context
  faults,        \* transport read failures so far
  boots,         \* restarts
  sent,          \* history: call invocations made while ready, since the last flush
  dropped,       \* history: a call was invoked while not ready
  gotReady,      \* history: a Ready byte was consumed as an event type
  wroteReady,    \* history: a Ready byte was written to tx
  rx0,           \* history: rx, tx, led, ready when the operation in progress began
  tx0,
  led0,
  ready0,
  invoked,       \* history: handlers run by the read in progress
  toggles,       \* events::reset: iterations of its loop made so far
  failed,        \* history: a transport read failed in the read in progress
  borrowed       \* the shared cells whose RefCell is mutably borrowed

vars ==
  <<pc, cs, isr, wire, rx, tx, ready, led, serial_comm, count, function_len,
    function, data_len, data, result, call_function, call_data, record, pending,
    msgs,
    calls, faults, boots, sent, dropped, gotReady, wroteReady, rx0, tx0, led0,
    ready0, invoked, toggles, failed, borrowed>>

locals ==
  <<function_len, function, data_len, data, result>>

callv ==
  <<call_function, call_data, record>>

hostv ==
  <<wire, pending, msgs>>

budget ==
  <<calls, faults, boots>>

hist ==
  <<gotReady, wroteReady>>

entry ==
  <<rx0, tx0, led0, ready0, invoked, toggles, failed>>

\* the main context is inside SerialComm::read
ReadPcs ==
  {"read", "ready", "ready_set", "function_len", "function", "data_len",
   "data", "end", "dispatch", "reset_loop", "return_event", "flush", "exit"}

\* the main context is inside SerialComm::call, invoked from the main loop
CallPcs ==
  {"call", "call_exit"}

\* the main context has stopped for good: panic handler, alloc_error_handler
HaltPcs ==
  {"panic", "oom", "call_panic"}

Init ==
  /\ pc = "start"
  /\ cs = 0
  /\ isr = "idle"
  /\ wire = <<>>
  /\ rx = <<>>
  /\ tx = <<>>
  /\ ready = FALSE
  /\ led = TRUE
  /\ serial_comm = "None"
  /\ count = 0
  /\ function_len = 0
  /\ function = <<>>
  /\ data_len = 0
  /\ data = <<>>
  /\ result = <<>>
  /\ call_function = <<>>
  /\ call_data = <<>>
  /\ record = <<>>
  /\ pending = <<>>
  /\ msgs = 0
  /\ calls = 0
  /\ faults = 0
  /\ boots = 0
  /\ sent = 0
  /\ dropped = FALSE
  /\ gotReady = FALSE
  /\ wroteReady = FALSE
  /\ rx0 = <<>>
  /\ tx0 = <<>>
  /\ led0 = TRUE
  /\ ready0 = FALSE
  /\ invoked = <<>>
  /\ toggles = 0
  /\ failed = FALSE
  /\ borrowed = {}

\* ------------------------------------------------------------ borrows
\* read that keeps the writer borrowed as it does the reader
ReadBorrowsBoth ==
  {"rx", "tx"}

\* read: `rx.borrow_ref_mut(cs)`, alive until its closure ends
ReadBorrows ==
  {"rx"}

\* ready: `tx.borrow(cs).borrow_mut()`, alive until its closure ends
ReadyBorrows ==
  {"tx"}

\* ready: `self.ready.borrow_ref_mut(cs)`, dropped within the statement
ReadyFlagBorrows ==
  {"ready"}

\* return_event: `tx.borrow(cs).borrow_mut()`
ReturnBorrows ==
  {"tx"}

\* set_led, reset: `hardware.borrow_ref_mut(cs)`
HardwareBorrows ==
  {"hardware"}

\* call: `self.ready.borrow_ref(cs)`, and the writer when ready
CallBorrows(rdy) ==
  {"ready"} \cup (IF rdy THEN {"tx"} ELSE {})

\* a log macro: SerialLogger::log calls call when it is bound
LogBorrows(sc, rdy) ==
  IF enabled(sc) THEN CallBorrows(rdy) ELSE {}

\* the cells borrowed by the steps the main context can take next
NextBorrows ==
  CASE pc = "idle" -> ReadBorrows \cup LogBorrows(serial_comm, ready)
    [] pc \in {"read", "function_len", "function", "data_len"}
         -> LogBorrows(serial_comm, ready)
    [] pc = "ready" -> ReadyBorrows
    [] pc = "ready_set" -> ReadyFlagBorrows
    [] pc = "dispatch" -> IF function \in {S_set_led, S_reset}
                            THEN HardwareBorrows \cup LogBorrows(serial_comm, ready)
                            ELSE LogBorrows(serial_comm, ready)
    [] pc = "return_event" -> ReturnBorrows
    [] pc = "call" -> CallBorrows(ready)
    [] pc = "log" -> LogBorrows(serial_comm, ready)
    [] OTHER -> {}

\* the cells a step of the main context keeps borrowed while it runs a log
\* macro: set_led logs with the hardware borrowed
BorrowedWhileLogging ==
  IF pc = "dispatch" /\ function = S_set_led THEN HardwareBorrows ELSE {}

\* ------------------------------------------------------ action helpers
\* a log record emitted through the log sink: what reaches tx, and the
\* history of accepted and dropped send-command invocations
Emit(rec) ==
  /\ tx' = tx \o log(serial_comm, ready, rec)
  /\ sent' = IF enabled(serial_comm) /\ ready THEN sent + 1 ELSE sent
  /\ dropped' = (dropped \/ (enabled(serial_comm) /\ ~ready))

NoEmit ==
  UNCHANGED <<tx, sent, dropped>>

\* the USB controller raises USB_OTG1: received bytes wait in the FIFO, or
\* written bytes wait for the host, which polls the device continuously
IrqPending ==
  wire # <<>> \/ tx # <<>>

\* a critical section that does not mask interrupts
InterruptsNeverMasked ==
  TRUE

\* critical_section::with / cortex_m::interrupt::free: interrupts are taken
\* only while the main context holds no critical section
InterruptsEnabled ==
  cs = 0

\* the main context executes its next step: no interrupt routine is running
\* on the core and none is about to be taken
MainRuns ==
  /\ isr = "idle"
  /\ ~(IrqPending /\ InterruptsEnabled)

\* the outcomes of a read the transport may give: Ok, or Err while the
\* failures counted so far allow one more
FaultChoices(num_bytes) ==
  IF num_bytes # 0 /\ faults < MaxFaults THEN {FALSE, TRUE} ELSE {FALSE}

\* `.unwrap()` on an Err, or a failed allocation: the program stops here
Halt(to) ==
  /\ pc' = to
  /\ UNCHANGED <<cs, isr, rx, ready, led, serial_comm, count, locals, callv,
                 hostv, calls, boots, hist, borrowed, rx0, tx0, led0, ready0, invoked,
                 toggles>>
  /\ NoEmit

\* the history of the operation that begins
Begin ==
  /\ rx0' = rx
  /\ tx0' = tx
  /\ led0' = led
  /\ ready0' = ready
  /\ invoked' = <<>>
  /\ toggles' = 0
  /\ failed' = FALSE

\* the history of the operation that ended is dropped
End ==
  /\ rx0' = <<>>
  /\ tx0' = <<>>
  /\ led0' = TRUE
  /\ ready0' = FALSE
  /\ invoked' = <<>>
  /\ toggles' = 0
  /\ failed' = FALSE

\* ------------------------------------------------------------- startup
\* main: SerialComm::get (which unmasks USB_OTG1) and SerialLogger::init
Startup ==
  /\ pc = "start"
  /\ MainRuns
  /\ pc' = "idle"
  /\ serial_comm' = "Some"
  /\ UNCHANGED <<cs, isr, rx, ready, led, count, locals, callv, hostv, budget,
                 hist, borrowed, entry>>
  /\ NoEmit

\* ------------------------------------------------------------ the host
\* the host starts a message, once the device has taken the previous one
\* from the reader, and its first k bytes reach the USB FIFO
HostSend(m, k) ==
  /\ pending = <<>>
  /\ wire = <<>>
  /\ rx = <<>>
  /\ msgs < MaxMsgs
  /\ pc \notin {"start", "reset"} \cup HaltPcs
  /\ wire' = wire \o Take(m, k)
  /\ pending' = Drop(m, k)
  /\ msgs' = msgs + 1
  /\ UNCHANGED <<pc, cs, isr, rx, ready, led, serial_comm, count, locals, callv,
                 budget, hist, borrowed, entry>>
  /\ NoEmit

\* the rest of the host's message reaches the USB FIFO
HostRest ==
  /\ pending # <<>>
  /\ wire = <<>>
  /\ pc \notin {"start", "reset"} \cup HaltPcs
  /\ wire' = wire \o pending
  /\ pending' = <<>>
  /\ UNCHANGED <<pc, cs, isr, rx, ready, led, serial_comm, count, locals, callv,
                 msgs, budget, hist, borrowed, entry>>
  /\ NoEmit

\* ------------------------------------------------- interrupt routine
\* USB_OTG1 is taken: the interrupt is pending and interrupts are enabled
IsrEnter ==
  /\ isr = "idle"
  /\ pc \notin {"start", "reset"} \cup HaltPcs
  /\ IrqPending
  /\ InterruptsEnabled
  /\ isr' = "polling"
  /\ UNCHANGED <<pc, cs, rx, ready, led, serial_comm, count, locals, callv,
                 hostv, budget, hist, borrowed, entry>>
  /\ NoEmit

\* USB_OTG1: poller.poll() drains the FIFO into the reader and flushes the
\* writer to the host
IsrPoll ==
  /\ isr = "polling"
  /\ rx' = rx \o wire
  /\ wire' = <<>>
  /\ tx' = <<>>
  /\ sent' = 0
  /\ isr' = "idle"
  /\ UNCHANGED <<pc, cs, ready, led, serial_comm, count, locals, callv, pending,
                 msgs, budget, dropped, hist, borrowed, entry>>

\* --------------------------------------------------- SerialComm::read
\* read: enters the critical section and borrows rx
ReadEnter ==
  /\ pc = "idle"
  /\ MainRuns
  /\ pc' = "read"
  /\ cs' = cs + 1
  /\ borrowed' = borrowed \cup ReadBorrows
  /\ Begin
  /\ UNCHANGED <<isr, rx, ready, led, serial_comm, count, locals, callv, hostv,
                 budget, hist>>
  /\ NoEmit

\* read: `Err(error)`: the read of the event type failed; error!
ReadErr ==
  /\ pc = "read"
  /\ MainRuns
  /\ \E fault \in FaultChoices(1) :
       /\ ~read_n(rx, 1, fault).ok
       /\ faults' = faults + 1
  /\ Emit(Rec(S_ERROR, S_error_reading \o S_IO))
  /\ failed' = TRUE
  /\ pc' = "exit"
  /\ UNCHANGED <<cs, isr, rx, ready, led, serial_comm, count, locals, callv,
                 hostv, calls, boots, hist, borrowed, rx0, tx0, led0, ready0, invoked,
                 toggles>>

\* read: `Ok(READY)`
ReadReady ==
  /\ pc = "read"
  /\ MainRuns
  /\ LET r == read_n(rx, 1, FALSE)
     IN  /\ r.data[1] = READY
         /\ rx' = r.rest
  /\ gotReady' = TRUE
  /\ pc' = "ready"
  /\ UNCHANGED <<cs, isr, ready, led, serial_comm, count, locals, callv, hostv,
                 budget, wroteReady, borrowed, entry>>
  /\ NoEmit

\* SerialComm::ready: tx.write([READY])
ReadyWrite ==
  /\ pc = "ready"
  /\ MainRuns
  /\ tx' = tx \o ready_write
  /\ wroteReady' = (wroteReady \/ READY \in Range(ready_write))
  /\ borrowed' = borrowed \cup ReadyBorrows
  /\ pc' = "ready_set"
  /\ UNCHANGED <<cs, isr, rx, ready, led, serial_comm, count, locals, callv,
                 hostv, budget, sent, dropped, gotReady, entry>>

\* SerialComm::ready: *self.ready = true
ReadySet ==
  /\ pc = "ready_set"
  /\ MainRuns
  /\ ready' = ready_flag(ready)
  /\ borrowed' = borrowed \ ReadyBorrows
  /\ pc' = "exit"
  /\ UNCHANGED <<cs, isr, rx, led, serial_comm, count, locals, callv, hostv,
                 budget, hist, entry>>
  /\ NoEmit

\* read: `Ok(END)`, also what read_n(1) yields when nothing is buffered
ReadEnd ==
  /\ pc = "read"
  /\ MainRuns
  /\ LET r == read_n(rx, 1, FALSE)
     IN  /\ r.data[1] = END
         /\ rx' = r.rest
  /\ pc' = "exit"
  /\ UNCHANGED <<cs, isr, ready, led, serial_comm, count, locals, callv, hostv,
                 budget, hist, borrowed, entry>>
  /\ NoEmit

\* read: `Ok(b)`: no event type; warn!, then the discard loop is entered
ReadInvalid ==
  /\ pc = "read"
  /\ MainRuns
  /\ LET r == read_n(rx, 1, FALSE)
     IN  /\ r.data[1] \notin {READY, FUNCTION_HEADER, END}
         /\ rx' = r.rest
         /\ Emit(Rec(S_WARN, S_invalid_event \o ToDec(r.data[1])))
  /\ pc' = "flush"
  /\ UNCHANGED <<cs, isr, ready, led, serial_comm, count, locals, callv, hostv,
                 budget, hist, borrowed, entry>>

\* the discard loop reading a single byte
FlushOneByte ==
  /\ pc = "flush"
  /\ MainRuns
  /\ rx' = Drop(rx, 1)
  /\ pc' = "exit"
  /\ UNCHANGED <<cs, isr, ready, led, serial_comm, count, locals, callv, hostv,
                 budget, hist, borrowed, entry>>
  /\ NoEmit

\* read: `while rx.read(buffer).unwrap() > 0 {}`
Flush ==
  /\ pc = "flush"
  /\ MainRuns
  /\ \E fault \in FaultChoices(1) :
       IF ~ReaderRead(rx, 1, fault).ok
         THEN /\ Halt("panic")
              /\ faults' = faults + 1
              /\ failed' = TRUE
         ELSE /\ rx' = <<>>
              /\ pc' = "exit"
              /\ UNCHANGED <<cs, isr, ready, led, serial_comm, count, locals,
                             callv, hostv, budget, hist, borrowed, entry>>
              /\ NoEmit

\* read: `Ok(FUNCTION_HEADER)`
ReadFunctionHeader ==
  /\ pc = "read"
  /\ MainRuns
  /\ LET r == read_n(rx, 1, FALSE)
     IN  /\ r.data[1] = FUNCTION_HEADER
         /\ rx' = r.rest
  /\ pc' = "function_len"
  /\ UNCHANGED <<cs, isr, ready, led, serial_comm, count, locals, callv, hostv,
                 budget, hist, borrowed, entry>>
  /\ NoEmit

\* a blocking sub-read of num_bytes whose result is unwrapped stops the
\* program on a failed allocation (alloc_error_handler) or on Err (panic)
SubReadHalts(num_bytes, fault) ==
  IF AllocFails(num_bytes)
    THEN /\ ~fault
         /\ Halt("oom")
         /\ UNCHANGED <<faults, failed>>
    ELSE /\ ~read_n_blocking(rx, num_bytes, fault).ok
         /\ Halt("panic")
         /\ faults' = faults + 1
         /\ failed' = TRUE

\* the blocking sub-read returns Ok
SubReadOk(num_bytes, fault) ==
  /\ ~AllocFails(num_bytes)
  /\ read_n_blocking(rx, num_bytes, fault).ok

\* read: `let function_len = rx.read_n_blocking(1).unwrap()[0]`, info!
ReadFunctionLen ==
  /\ pc = "function_len"
  /\ MainRuns
  /\ \E fault \in FaultChoices(1) :
       /\ ~Spinning(rx, 1, fault)
       /\ \/ SubReadHalts(1, fault)
          \/ /\ SubReadOk(1, fault)
             /\ LET r == read_n_blocking(rx, 1, fault)
                IN  /\ rx' = r.rest
                    /\ function_len' = r.data[1]
                    /\ Emit(Rec(S_INFO, S_got_function_length \o ToDec(r.data[1])))
             /\ pc' = "function"
             /\ UNCHANGED <<cs, isr, ready, led, serial_comm, count, function,
                            data_len, data, result, callv, hostv, budget, hist, borrowed,
                            entry>>

\* read: `String::from_utf8(rx.read_n_blocking(function_len).unwrap()).unwrap()`,
\* info!
ReadFunction ==
  /\ pc = "function"
  /\ MainRuns
  /\ \E fault \in FaultChoices(function_len) :
       /\ ~Spinning(rx, function_len, fault)
       /\ \/ SubReadHalts(function_len, fault)
          \/ /\ SubReadOk(function_len, fault)
             /\ LET r == read_n_blocking(rx, function_len, fault)
                IN  IF ValidUtf8(r.data)
                      THEN /\ rx' = r.rest
                           /\ function' = r.data
                           /\ Emit(Rec(S_INFO, S_got_function \o r.data))
                           /\ pc' = "data_len"
                           /\ UNCHANGED <<cs, isr, ready, led, serial_comm, count,
                                          function_len, data_len, data, result,
                                          callv, hostv, budget, hist, borrowed, entry>>
                      ELSE /\ rx' = r.rest
                           /\ pc' = "panic"
                           /\ UNCHANGED <<cs, isr, ready, led, serial_comm, count,
                                          locals, callv, hostv, budget, hist, borrowed,
                                          entry>>
                           /\ NoEmit

\* read: `u16::from_le_bytes(rx.read_n_blocking(2).unwrap())`, info!
ReadDataLen ==
  /\ pc = "data_len"
  /\ MainRuns
  /\ \E fault \in FaultChoices(2) :
       /\ ~Spinning(rx, 2, fault)
       /\ \/ SubReadHalts(2, fault)
          \/ /\ SubReadOk(2, fault)
             /\ LET r == read_n_blocking(rx, 2, fault)
                IN  /\ rx' = r.rest
                    /\ data_len' = from_le_bytes(r.data)
                    /\ Emit(Rec(S_INFO,
                                S_got_data_length \o ToDec(from_le_bytes(r.data))))
             /\ pc' = "data"
             /\ UNCHANGED <<cs, isr, ready, led, serial_comm, count, function_len,
                            function, data, result, callv, hostv, budget, hist, borrowed,
                            entry>>

\* read: `let data = rx.read_n_blocking(data_len).unwrap()`
ReadData ==
  /\ pc = "data"
  /\ MainRuns
  /\ \E fault \in FaultChoices(data_len) :
       /\ ~Spinning(rx, data_len, fault)
       /\ \/ SubReadHalts(data_len, fault)
          \/ /\ SubReadOk(data_len, fault)
             /\ LET r == read_n_blocking(rx, data_len, fault)
                IN  /\ rx' = r.rest
                    /\ data' = r.data
             /\ pc' = "end"
             /\ UNCHANGED <<cs, isr, ready, led, serial_comm, count, function_len,
                            function, data_len, result, callv, hostv, budget, hist, borrowed,
                            entry>>
             /\ NoEmit

\* read: `rx.read_n_blocking(1).unwrap()`: the End-marker, value not looked at
ReadEndMarker ==
  /\ pc = "end"
  /\ MainRuns
  /\ \E fault \in FaultChoices(1) :
       /\ ~Spinning(rx, 1, fault)
       /\ \/ SubReadHalts(1, fault)
          \/ /\ SubReadOk(1, fault)
             /\ rx' = read_n_blocking(rx, 1, fault).rest
             /\ pc' = "dispatch"
             /\ UNCHANGED <<cs, isr, ready, led, serial_comm, count, locals, callv,
                            hostv, budget, hist, borrowed, entry>>
             /\ NoEmit

\* read: `"set_led" => events::set_led(data)`
DispatchSetLed ==
  /\ pc = "dispatch"
  /\ MainRuns
  /\ function = S_set_led
  /\ Emit(set_led_trace(data))
  /\ led' = set_led(led, data)
  /\ result' = <<>>
  /\ invoked' = Append(invoked, [name |-> function, data |-> data])
  /\ pc' = "return_event"
  /\ UNCHANGED <<cs, isr, rx, ready, serial_comm, count, function_len, function,
                 data_len, data, callv, hostv, budget, hist, borrowed, rx0, tx0, led0,
                 ready0, toggles, failed>>

\* read: `"reset" => events::reset(data)`: debug!, then the critical section
\* of the countdown is entered
DispatchReset ==
  /\ pc = "dispatch"
  /\ MainRuns
  /\ function = S_reset
  /\ Emit(Rec(S_DEBUG, S_called_reset))
  /\ invoked' = Append(invoked, [name |-> function, data |-> data])
  /\ toggles' = 0
  /\ pc' = "reset_loop"
  /\ cs' = cs + 1
  /\ borrowed' = borrowed \cup HardwareBorrows
  /\ UNCHANGED <<isr, rx, ready, led, serial_comm, count, locals, callv, hostv,
                 budget, hist, rx0, tx0, led0, ready0, failed>>

\* reset: one iteration of the countdown: `hw.led.toggle()`, `delay_ms(84)`
ResetToggle ==
  /\ pc = "reset_loop"
  /\ MainRuns
  /\ ResetLoopRuns(toggles)
  /\ led' = ~led
  /\ toggles' = toggles + 1
  /\ UNCHANGED <<pc, cs, isr, rx, ready, serial_comm, count, locals, callv,
                 hostv, budget, hist, borrowed, rx0, tx0, led0, ready0, invoked, failed>>
  /\ NoEmit

\* reset: the loop and its critical section are over: `SCB::sys_reset()`
SysReset ==
  /\ pc = "reset_loop"
  /\ MainRuns
  /\ ~ResetLoopRuns(toggles)
  /\ pc' = "reset"
  /\ cs' = cs - 1
  /\ borrowed' = borrowed \ HardwareBorrows
  /\ UNCHANGED <<isr, rx, ready, led, serial_comm, count, locals, callv,
                 hostv, budget, hist, entry>>
  /\ NoEmit

\* read: `_ => { warn!(..); vec![] }`
DispatchUnknown ==
  /\ pc = "dispatch"
  /\ MainRuns
  /\ function \notin {S_set_led, S_reset}
  /\ Emit(Rec(S_WARN, S_Function \o function \o S_does_not_exist))
  /\ result' = <<>>
  /\ pc' = "return_event"
  /\ UNCHANGED <<cs, isr, rx, ready, led, serial_comm, count, function_len,
                 function, data_len, data, callv, hostv, budget, hist, borrowed, entry>>

\* read: `self.return_event(result)`
ReturnEvent ==
  /\ pc = "return_event"
  /\ MainRuns
  /\ tx' = tx \o return_event(result)
  /\ pc' = "exit"
  /\ UNCHANGED <<cs, isr, rx, ready, led, serial_comm, count, locals, callv,
                 hostv, budget, sent, dropped, hist, borrowed, entry>>

\* read: the closure ends: rx is released, the critical section is left,
\* the locals are gone
ReadExit ==
  /\ pc = "exit"
  /\ MainRuns
  /\ pc' = "idle"
  /\ cs' = cs - 1
  /\ function_len' = 0
  /\ function' = <<>>
  /\ data_len' = 0
  /\ data' = <<>>
  /\ result' = <<>>
  /\ borrowed' = borrowed \ ReadBorrows
  /\ End
  /\ UNCHANGED <<isr, rx, ready, led, serial_comm, count, callv, hostv, budget,
                 hist>>
  /\ NoEmit

\* cortex_m::peripheral::SCB::sys_reset: startup runs again from scratch
Reboot ==
  /\ pc = "reset"
  /\ boots < MaxBoots
  /\ boots' = boots + 1
  /\ pc' = "start"
  /\ cs' = 0
  /\ isr' = "idle"
  /\ wire' = <<>>
  /\ rx' = <<>>
  /\ tx' = <<>>
  /\ ready' = FALSE
  /\ led' = TRUE
  /\ serial_comm' = "None"
  /\ count' = 0
  /\ function_len' = 0
  /\ function' = <<>>
  /\ data_len' = 0
  /\ data' = <<>>
  /\ result' = <<>>
  /\ sent' = 0
  /\ dropped' = FALSE
  /\ gotReady' = FALSE
  /\ wroteReady' = FALSE
  /\ borrowed' = {}
  /\ End
  /\ UNCHANGED <<callv, pending, msgs, calls, faults>>

\* --------------------------------------------------- SerialComm::call
\* call: invoked by the main context, enters the critical section
CallEnter(function_, data_) ==
  /\ pc = "idle"
  /\ MainRuns
  /\ calls < MaxCalls
  /\ calls' = calls + 1
  /\ call_function' = function_
  /\ call_data' = data_
  /\ record' = <<>>
  /\ pc' = "call"
  /\ cs' = cs + 1
  /\ Begin
  /\ UNCHANGED <<isr, rx, ready, led, serial_comm, count, locals, hostv, faults,
                 boots, hist, borrowed>>
  /\ NoEmit

\* call: the ready check and the writes
CallBody ==
  /\ pc = "call"
  /\ MainRuns
  /\ IF CallPanics(ready, call_function)
       THEN /\ Halt("call_panic")
            /\ UNCHANGED <<faults, failed>>
       ELSE /\ tx' = tx \o call(ready, call_function, call_data)
            /\ sent' = IF ready THEN sent + 1 ELSE sent
            /\ dropped' = (dropped \/ ~ready)
            /\ pc' = "call_exit"
            /\ UNCHANGED <<cs, isr, rx, ready, led, serial_comm, count, locals,
                           callv, hostv, budget, hist, borrowed, entry>>

\* call: the critical section is left
CallExit ==
  /\ pc = "call_exit"
  /\ MainRuns
  /\ pc' = "idle"
  /\ cs' = cs - 1
  /\ call_function' = <<>>
  /\ call_data' = <<>>
  /\ record' = <<>>
  /\ End
  /\ UNCHANGED <<isr, rx, ready, led, serial_comm, count, locals, hostv, budget,
                 hist, borrowed>>
  /\ NoEmit

\* ------------------------------------------------------ the main loop
\* main: the timer compare fired: led.toggle(), info!, count += 1
MainTick ==
  /\ pc = "idle"
  /\ MainRuns
  /\ calls < MaxCalls
  /\ calls' = calls + 1
  /\ led' = ~led
  /\ Emit(Rec(S_INFO, S_toggling_led \o ToDec(count)))
  /\ count' = count + 1
  /\ UNCHANGED <<pc, cs, isr, rx, ready, serial_comm, locals, callv, hostv,
                 faults, boots, hist, borrowed, entry>>

\* ------------------------------------------------------- specification
Host ==
  \/ \E m \in HostMessages : \E k \in 1..Len(m) : HostSend(m, k)
  \/ HostRest

Isr ==
  \/ IsrEnter
  \/ IsrPoll

Read ==
  \/ ReadEnter
  \/ ReadErr
  \/ ReadReady
  \/ ReadyWrite
  \/ ReadySet
  \/ ReadEnd
  \/ ReadInvalid
  \/ Flush
  \/ ReadFunctionHeader
  \/ ReadFunctionLen
  \/ ReadFunction
  \/ ReadDataLen
  \/ ReadData
  \/ ReadEndMarker
  \/ DispatchSetLed
  \/ DispatchReset
  \/ ResetToggle
  \/ SysReset
  \/ DispatchUnknown
  \/ ReturnEvent
  \/ ReadExit

Call ==
  \/ \E c \in CallInputs : CallEnter(c[1], c[2])
  \/ CallBody
  \/ CallExit

Main ==
  \/ Startup
  \/ Read
  \/ Call
  \/ MainTick
  \/ Reboot

Next ==
  \/ Host
  \/ Isr
  \/ Main

Spec ==
  Init /\ [][Next]_vars

\* The core keeps executing the main context, takes a pending interrupt
\* whenever interrupts are enabled, and the host finishes the message it
\* started.
FairSpec ==
  /\ Spec
  /\ WF_vars(Startup \/ Read \/ CallBody \/ CallExit \/ Reboot)
  /\ WF_vars(Isr)
  /\ WF_vars(HostRest)

\* main as written: after startup its loop toggles the LED, logs and counts
\* when the timer compare fires, and does nothing else
MainLoopNext ==
  \/ Host
  \/ Isr
  \/ Startup
  \/ MainTick

\* main as written, with the core executing the loop, the interrupt taken
\* when pending and the host finishing its message
MainLoopSpec ==
  /\ Init
  /\ [][MainLoopNext]_vars
  /\ WF_vars(Startup \/ MainTick)
  /\ WF_vars(Isr)
  /\ WF_vars(HostRest)

\* payloads handed to set_led: every byte string of at most MaxPayloadLen
\* bytes over these values
PayloadBytes ==
  {0, 1, 2, 255}

Payloads ==
  UNION {[1..n -> PayloadBytes] : n \in 0..MaxPayloadLen}

\* what read has logged when it reaches the dispatch of FunctionFrame(name, p)
ParseLog(r, name, p) ==
  log("Some", r, Rec(S_INFO, S_got_function_length \o ToDec(Len(name))))
  \o log("Some", r, Rec(S_INFO, S_got_function \o name))
  \o log("Some", r, Rec(S_INFO, S_got_data_length \o ToDec(Len(p))))

\* read at the dispatch of a set_led frame with payload p, read whole from
\* an otherwise empty reader, with the indicator l and the channel ready or
\* not
SetLedInit ==
  \E p \in Payloads : \E l \in BOOLEAN : \E r \in BOOLEAN :
    /\ pc = "dispatch"
    /\ cs = 1
    /\ isr = "idle"
    /\ wire = <<>>
    /\ rx = <<>>
    /\ tx = ParseLog(r, S_set_led, p)
    /\ ready = r
    /\ led = l
    /\ serial_comm = "Some"
    /\ count = 0
    /\ function_len = Len(S_set_led)
    /\ function = S_set_led
    /\ data_len = Len(p)
    /\ data = p
    /\ result = <<>>
    /\ call_function = <<>>
    /\ call_data = <<>>
    /\ record = <<>>
    /\ pending = <<>>
    /\ msgs = IF r THEN 2 ELSE 1
    /\ calls = 0
    /\ faults = 0
    /\ boots = 0
    /\ sent = IF r THEN 3 ELSE 0
    /\ dropped = ~r
    /\ gotReady = r
    /\ wroteReady = r
    /\ rx0 = FunctionFrame(S_set_led, p)
    /\ tx0 = <<>>
    /\ led0 = l
    /\ ready0 = r
    /\ invoked = <<>>
    /\ toggles = 0
    /\ failed = FALSE
    /\ borrowed = {"rx"}

\* the handler and the reply that follows it
SetLedNext ==
  \/ DispatchSetLed
  \/ ReturnEvent

SetLedSpec ==
  SetLedInit /\ [][SetLedNext]_vars

\* records handed to the Log Sink: every level with these messages
LogLevels ==
  {S_ERROR, S_WARN, S_INFO, S_DEBUG, S_TRACE}

LogMessages ==
  {S_hi, <<>>, S_toggling_led \o ToDec(0), Zeros(300)}

\* the Log Sink is handed a record by the main context, before or after
\* SerialLogger::init bound it to the channel, with the channel ready or not
LogInit ==
  \E level \in LogLevels : \E content \in LogMessages :
  \E sc \in {"None", "Some"} : \E r \in BOOLEAN :
    /\ enabled(sc) \/ ~r
    /\ pc = "log"
    /\ cs = 0
    /\ isr = "idle"
    /\ wire = <<>>
    /\ rx = <<>>
    /\ tx = <<>>
    /\ ready = r
    /\ led = TRUE
    /\ serial_comm = sc
    /\ count = 0
    /\ function_len = 0
    /\ function = <<>>
    /\ data_len = 0
    /\ data = <<>>
    /\ result = <<>>
    /\ call_function = <<>>
    /\ call_data = <<>>
    /\ record = Rec(level, content)
    /\ pending = <<>>
    /\ msgs = IF r THEN 1 ELSE 0
    /\ calls = 0
    /\ faults = 0
    /\ boots = 0
    /\ sent = 0
    /\ dropped = FALSE
    /\ gotReady = r
    /\ wroteReady = r
    /\ rx0 = <<>>
    /\ tx0 = <<>>
    /\ led0 = TRUE
    /\ ready0 = FALSE
    /\ invoked = <<>>
    /\ toggles = 0
    /\ failed = FALSE
    /\ borrowed = {}

\* SerialLogger::log: the enabled check, interrupt::free, the payload, and
\* the entry into `serial.call("log", data)`
LogCall ==
  /\ pc = "log"
  /\ MainRuns
  /\ IF enabled(serial_comm)
       THEN /\ call_function' = S_log
            /\ call_data' = LogData(record.level, record.content)
            /\ pc' = "call"
            /\ cs' = cs + 1
            /\ Begin
       ELSE /\ pc' = "log_exit"
            /\ UNCHANGED <<cs, call_function, call_data, entry>>
  /\ UNCHANGED <<isr, rx, ready, led, serial_comm, count, locals, record,
                 hostv, budget, hist, borrowed>>
  /\ NoEmit

LogNext ==
  \/ LogCall
  \/ CallBody
  \/ CallExit

LogSpec ==
  LogInit /\ [][LogNext]_vars

\* the largest value of the `u16` that call writes as the payload length
U16_MAX ==
  65535

\* the arguments of call: command names, among them "log", the only one the
\* firmware itself sends, and one longer than a byte can count; payloads
\* of any `AsRef<[u8]>`, which need not live on the heap, of sizes around
\* the range of the length field
CallNames ==
  {S_log, S_ping, <<>>, Zeros(256)}

CallSizes ==
  {0, 2, 300, U16_MAX, U16_MAX + 1, U16_MAX + 2}

\* call has been entered by the main context, before or after the handshake
CallInit ==
  \E function_ \in CallNames : \E n \in CallSizes : \E r \in BOOLEAN :
    /\ pc = "call"
    /\ cs = 1
    /\ isr = "idle"
    /\ wire = <<>>
    /\ rx = <<>>
    /\ tx = <<>>
    /\ ready = r
    /\ led = TRUE
    /\ serial_comm = "Some"
    /\ count = 0
    /\ function_len = 0
    /\ function = <<>>
    /\ data_len = 0
    /\ data = <<>>
    /\ result = <<>>
    /\ call_function = function_
    /\ call_data = Zeros(n)
    /\ record = <<>>
    /\ pending = <<>>
    /\ msgs = IF r THEN 1 ELSE 0
    /\ calls = 1
    /\ faults = 0
    /\ boots = 0
    /\ sent = 0
    /\ dropped = FALSE
    /\ gotReady = r
    /\ wroteReady = r
    /\ rx0 = <<>>
    /\ tx0 = <<>>
    /\ led0 = TRUE
    /\ ready0 = r
    /\ invoked = <<>>
    /\ toggles = 0
    /\ failed = FALSE
    /\ borrowed = {}

CallNext ==
  \/ CallBody
  \/ CallExit

CallSpec ==
  CallInit /\ [][CallNext]_vars

\* ----------------------------------------------------------- properties
\* the frames of a writer stream, as the host parses it; every handler of
\* the command table replies with no bytes, so a Function-return frame is
\* its header alone; 255 marks bytes that begin no frame
RECURSIVE ParseTx(_)
ParseTx(s) ==
  IF s = <<>> THEN <<>>
  ELSE IF s[1] = READY \/ s[1] = RETURN_HEADER
    THEN <<[type |-> s[1], name |-> <<>>, data |-> <<>>]>> \o ParseTx(Drop(s, 1))
  ELSE IF /\ s[1] = FUNCTION_HEADER
          /\ Len(s) >= 2
          /\ Len(s) >= s[2] + 4
          /\ Len(s) >= s[2] + 5 + s[s[2] + 3] + 256 * s[s[2] + 4]
          /\ s[s[2] + 5 + s[s[2] + 3] + 256 * s[s[2] + 4]] = END
    THEN LET n == s[2]
             d == s[n + 3] + 256 * s[n + 4]
         IN  <<[type |-> FUNCTION_HEADER, name |-> SubSeq(s, 3, n + 2),
                data |-> SubSeq(s, n + 5, n + 4 + d)]>>
             \o ParseTx(Drop(s, n + 5 + d))
  ELSE <<[type |-> 255, name |-> <<>>, data |-> s]>>

IsCallFrame(f) ==
  f.type = FUNCTION_HEADER

IsReturnFrame(f) ==
  f.type = RETURN_HEADER

CallFrames(s) ==
  SelectSeq(ParseTx(s), IsCallFrame)

ReturnFrames(s) ==
  SelectSeq(ParseTx(s), IsReturnFrame)

\* the bytes written by the operation in progress
Written ==
  Drop(tx, Len(tx0))

\* C1: send-command invoked while ready is false writes nothing (while ready
\* is false the writer gains no Function-call frame), and a message
\* dropped that way is never written later: the Function-call frames waiting
\* in the writer are exactly the send-command invocations made while ready
\* was true since the last flush.
C1_DroppedNeverWritten ==
  /\ [](Len(CallFrames(tx)) = sent)
  /\ []((pc = "call_exit" /\ ~ready) => tx = tx0)
  /\ [][~ready => \/ tx' = <<>>
                  \/ IsPrefix(tx, tx') /\ CallFrames(tx') = CallFrames(tx)]_vars

C1_Witness ==
  /\ dropped
  /\ ready
  /\ sent > 0
  /\ Len(CallFrames(tx)) = sent

\* C2: ready is false at startup; ready implies that a Ready byte was
\* consumed as an event type and a Ready byte was written; a read that
\* consumes a Ready byte writes exactly one 0x01 byte, and writes it before
\* it sets ready.
C2_ReadyOnlyAfterHandshake ==
  /\ (pc = "start" => ~ready)
  /\ (ready => gotReady /\ wroteReady)
  /\ (pc = "ready" => tx = tx0 /\ ready = ready0)
  /\ (pc = "ready_set" => tx = tx0 \o <<READY>> /\ ready = ready0)
  /\ ((pc = "exit" /\ ~failed /\ rx0 # <<>> /\ rx0[1] = READY)
        => tx = tx0 \o <<READY>> /\ ready /\ rx = Drop(rx0, 1))

C2_Witness ==
  /\ pc = "exit"
  /\ rx0 = <<READY>>
  /\ ~ready0
  /\ ready
  /\ tx = <<READY>>

\* C3: within one execution ready never goes back to false, whatever
\* operation runs (only the restart clears it), and a send-command made
\* through the main loop's handle once ready is true is transmitted.
C3_ReadyStaysTrue ==
  /\ [][(ready /\ pc # "reset") => ready']_vars
  /\ []((pc = "call_exit" /\ ready) => tx # tx0)

C3_Witness ==
  /\ pc = "exit"
  /\ rx0 # <<>>
  /\ rx0[1] = READY
  /\ ready0
  /\ ready

\* C4: send-command(name, payload) invoked while ready is true, with a name
\* of at most 255 bytes and a payload of at most 65535, appends exactly
\* [0x02, len(name), name, len(payload) mod 256, len(payload) div 256,
\* payload, 0x00]; for ("ping", [7,8]) that is [2,4,'p','i','n','g',2,0,7,8,0].
C4_CallFrameBytes ==
  (pc = "call_exit" /\ ready /\ Len(call_function) <= 255 /\ Len(call_data) <= 65535)
    => /\ tx = tx0 \o <<2, Len(call_function)>> \o call_function
                   \o <<Len(call_data) % 256, Len(call_data) \div 256>>
                   \o call_data \o <<0>>
       /\ (call_function = S_ping /\ call_data = <<7, 8>>)
            => Written = <<2, 4, 112, 105, 110, 103, 2, 0, 7, 8, 0>>

C4_Witness ==
  /\ pc = "call_exit"
  /\ ready
  /\ call_function = S_ping
  /\ call_data = <<7, 8>>
  /\ Written = <<2, 4, 112, 105, 110, 103, 2, 0, 7, 8, 0>>
\* read is inside a blocking sub-read whose reader is empty
Waiting ==
  \/ pc = "function_len" /\ Spinning(rx, 1, FALSE)
  \/ pc = "function" /\ Spinning(rx, function_len, FALSE)
  \/ pc = "data_len" /\ Spinning(rx, 2, FALSE)
  \/ pc = "data" /\ Spinning(rx, data_len, FALSE)
  \/ pc = "end" /\ Spinning(rx, 1, FALSE)

\* the last frame of a writer stream is a Function-return frame
EndsWithReturn(s) ==
  /\ s # <<>>
  /\ s[Len(s)] = RETURN_HEADER
  /\ IsReturnFrame(ParseTx(s)[Len(ParseTx(s))])

\* C5: when read starts with a complete set_led frame in the reader and no
\* transport read fails, it neither stops nor waits, and when it returns it
\* has consumed exactly the frame, invoked set_led exactly once with the
\* payload, and written exactly one Function-return frame, whose byte 0x03 is
\* the last byte written; with payload [1] the LED is on. Holds whether or
\* not the channel is ready.
C5_SetLedDispatch ==
  \A p \in LedPayloads :
    (IsPrefix(FunctionFrame(S_set_led, p), rx0) /\ ~failed)
      => /\ pc \notin {"panic", "oom"}
         /\ ~Waiting
         /\ pc = "exit"
              => /\ rx = Drop(rx0, Len(FunctionFrame(S_set_led, p)))
                 /\ invoked = <<[name |-> S_set_led, data |-> p]>>
                 /\ Len(ReturnFrames(Written)) = 1
                 /\ EndsWithReturn(Written)
                 /\ led = set_led(led0, p)
                 /\ (p = <<1>> => led)
                 /\ ready = ready0

C5_Witness ==
  /\ pc = "exit"
  /\ rx0 = FunctionFrame(S_set_led, <<1>>)
  /\ rx = <<>>
  /\ ready
  /\ invoked = <<[name |-> S_set_led, data |-> <<1>>]>>
  /\ led
  /\ EndsWithReturn(Written)

\* C6: when read starts with a complete frame whose name is not in the
\* command table and no transport read fails, it does not stop, invokes no
\* handler, leaves the LED and ready unchanged, and returns having written
\* exactly one Function-return frame [0x03].
C6_UnknownNameHarmless ==
  \A n \in UnknownNames :
    (IsPrefix(FunctionFrame(n, <<5>>), rx0) /\ ~failed)
      => /\ pc \notin {"panic", "oom"}
         /\ invoked = <<>>
         /\ led = led0
         /\ ready = ready0
         /\ pc = "exit"
              => /\ Len(ReturnFrames(Written)) = 1
                 /\ EndsWithReturn(Written)

\* C7: a transport read that fails at any point of read abandons the parse
\* without stopping the program: no handler is invoked and no
\* Function-return frame is written.
C7_ReadFailureAbandonsParse ==
  failed
    => /\ pc \notin {"panic", "oom"}
       /\ invoked = <<>>
       /\ ReturnFrames(Written) = <<>>

\* C8: whatever bytes the host sends, read never panics or otherwise ends
\* the main loop: read stops the program on a panic or a failed allocation
\* only after a transport read failed.
C8_NoInputPanics ==
  pc \in {"panic", "oom"} => failed

\* the host has put every byte of a set_led frame on the transport since
\* read started: those in the reader when it started and those that arrived
\* after
FrameDelivered ==
  /\ pc \in ReadPcs
  /\ ~failed
  /\ \E p \in LedPayloads : IsPrefix(FunctionFrame(S_set_led, p), rx0 \o wire)

\* C9: once the host has delivered every byte of a well-formed set_led frame
\* to the transport, read eventually invokes the handler (or a transport read
\* fails), also when some of the bytes arrive after read has consumed the
\* event type.
C9_FrameEventuallyDispatched ==
  FrameDelivered ~> (invoked # <<>> \/ failed)

\* C10: the interrupt handler polls only while the main context is outside
\* every critical section, so never while read or send-command uses the
\* channel; the main context does not step while the handler runs; while the
\* main context is inside read or send-command nothing is taken from the
\* transport FIFO into the reader and the writer is not flushed.
C10_MutualExclusion ==
  /\ [](isr # "idle" => cs = 0 /\ pc \notin ReadPcs \cup CallPcs)
  /\ []((pc \in ReadPcs \cup CallPcs) => cs > 0)
  /\ [][isr # "idle" => pc' = pc /\ cs' = cs]_vars
  /\ [][(pc \in ReadPcs \cup CallPcs /\ pc' \in ReadPcs \cup CallPcs)
          => IsPrefix(wire, wire') /\ IsPrefix(tx, tx') /\ Len(rx') <= Len(rx)]_vars

C10_Witness ==
  /\ pc \in {"function_len", "function", "data_len", "data", "end"}
  /\ cs > 0
  /\ isr = "idle"
  /\ wire # <<>>
  /\ tx # <<>>

\* every frame of a writer stream is a whole Ready-handshake, Function-return
\* or Function-call frame
WholeFrames(s) ==
  \A i \in 1..Len(ParseTx(s)) :
    ParseTx(s)[i].type \in {READY, RETURN_HEADER, FUNCTION_HEADER}

\* C11: after any sequence of operations the transmit stream is a
\* concatenation of whole frames: the writer always holds whole frames only
\* (so every flush hands the host whole frames), what an operation has
\* written so far is whole frames, and a send-command made while ready adds
\* exactly its own frame, from the 0x02 byte to the End-marker, in one
\* contiguous run.
C11_WholeFrames ==
  /\ WholeFrames(tx)
  /\ (pc \in ReadPcs \cup CallPcs) => (IsPrefix(tx0, tx) /\ WholeFrames(Written))
  /\ (pc = "call_exit" /\ ready)
       => ParseTx(Written)
            = <<[type |-> FUNCTION_HEADER, name |-> call_function,
                 data |-> call_data]>>

C11_Witness ==
  /\ pc = "exit"
  /\ tx0 = <<>>
  /\ Len(CallFrames(tx)) >= 3
  /\ Len(ReturnFrames(tx)) = 1
  /\ EndsWithReturn(tx)
  /\ WholeFrames(tx)

\* no frame of a writer stream is a Ready-handshake
NoReadyFrame(s) ==
  \A i \in 1..Len(ParseTx(s)) : ParseTx(s)[i].type # READY

\* C12: when read reads an event type that is none of 0x00, 0x01, 0x02 with N
\* further bytes in the reader, and no transport read fails, it neither stops
\* nor waits, and it returns having consumed exactly those N+1 bytes (the
\* reader is empty), invoked no handler, written no Function-return frame and
\* no Ready-handshake byte, and left ready and the indicator unchanged.
C12_InvalidEventDiscarded ==
  (pc \in ReadPcs \cup {"panic", "oom"} /\ rx0 # <<>>
     /\ rx0[1] \notin {END, READY, FUNCTION_HEADER} /\ ~failed)
    => /\ pc \in {"read", "flush", "exit"}
       /\ invoked = <<>>
       /\ ready = ready0
       /\ led = led0
       /\ IsPrefix(tx0, tx)
       /\ ReturnFrames(Written) = <<>>
       /\ NoReadyFrame(Written)
       /\ pc = "flush" => rx = Drop(rx0, 1)
       /\ pc = "exit" => rx = <<>>

C12_Witness ==
  /\ pc = "exit"
  /\ rx0 = <<RETURN_HEADER, READY, FUNCTION_HEADER>>
  /\ rx = <<>>
  /\ ready
  /\ Len(CallFrames(Written)) = 1

\* the host has delivered a Ready-handshake byte and it is the next byte of
\* the reader while the main loop is between operations
ReadyDelivered ==
  /\ pc = "idle"
  /\ rx # <<>>
  /\ rx[1] = READY

\* C13: the main loop calls read on every iteration, so a Ready-handshake
\* byte the host has delivered at a frame boundary is eventually consumed and
\* answered, and ready eventually becomes true.
C13_HandshakeEventuallyCompletes ==
  ReadyDelivered ~> (ready /\ gotReady /\ wroteReady)

\* C14: dispatching a frame named reset toggles the indicator exactly 11
\* times and then restarts the device without returning: no Function-return
\* frame is written for the call, from the countdown on the execution reads
\* and writes no byte, and the restart leaves the channel awaiting the
\* handshake (ready false) whatever it was before.
C14_ResetRestarts ==
  /\ [](pc = "reset" => /\ toggles = 11
                        /\ led = ~led0
                        /\ invoked = <<[name |-> S_reset, data |-> data]>>)
  /\ [](pc \in {"reset_loop", "reset"} => ReturnFrames(Written) = <<>>)
  /\ [][(pc = "dispatch" /\ function = S_reset) => pc' \in {"dispatch", "reset_loop"}]_vars
  /\ [][pc = "reset_loop" => /\ pc' \in {"reset_loop", "reset"}
                             /\ rx' = rx
                             /\ tx' = tx
                             /\ (led' # led <=> toggles' = toggles + 1)
                             /\ toggles' \in {toggles, toggles + 1}]_vars
  /\ [][pc = "reset" => \/ pc' = "reset" /\ rx' = rx /\ tx' = tx /\ led' = led
                        \/ pc' = "start" /\ ~ready' /\ rx' = <<>> /\ tx' = <<>>]_vars

C14_Witness ==
  /\ pc = "reset"
  /\ ready
  /\ toggles = 11
  /\ led = ~led0
  /\ Len(CallFrames(Written)) = 4

\* C15: for every payload p and every prior indicator state s, set_led(p)
\* returns an empty reply and leaves the indicator off if p is non-empty with
\* p[0] = 0, on if p is non-empty with p[0] # 0 whatever follows p[0], and in
\* the state opposite to s if p is empty.
C15_SetLedResult ==
  (pc \in {"return_event", "exit"} /\ function = S_set_led)
    => /\ invoked = <<[name |-> S_set_led, data |-> data]>>
       /\ result = <<>>
       /\ (data # <<>> /\ data[1] = 0) => ~led
       /\ (data # <<>> /\ data[1] # 0) => led
       /\ data = <<>> => led = ~led0
       /\ pc = "exit" => tx = tx0 \o ParseLog(ready, S_set_led, data)
                              \o log("Some", ready, set_led_trace(data))
                              \o <<RETURN_HEADER>>

C15_Witness ==
  /\ pc = "exit"
  /\ data = <<2, 0>>
  /\ ~led0
  /\ led
  /\ result = <<>>

\* C16: for every record with level L of at most 255 bytes and message M of
\* at most 65535, the Log Sink bound to a channel invokes send-command
\* exactly once, with the name "log" and the payload [len(L), L, len(M) mod
\* 256, len(M) div 256, M] ([4,'I','N','F','O',2,0,'h','i'] for INFO and
\* "hi"); an unbound Log Sink invokes nothing.
C16_LogPayload ==
  /\ (pc \in CallPcs /\ record # <<>>
        /\ Len(record.level) <= 255 /\ Len(record.content) <= 65535)
       => /\ enabled(serial_comm)
          /\ call_function = S_log
          /\ call_data = <<Len(record.level)>> \o record.level
                         \o <<Len(record.content) % 256,
                              Len(record.content) \div 256>>
                         \o record.content
          /\ (record.level = S_INFO /\ record.content = S_hi)
               => call_data = <<4, 73, 78, 70, 79, 2, 0, 104, 105>>
          /\ (pc = "call_exit" /\ ready)
               => ParseTx(tx) = <<[type |-> FUNCTION_HEADER, name |-> S_log,
                                   data |-> call_data]>>
          /\ (pc = "call_exit" /\ ~ready) => tx = <<>>
  /\ pc = "log_exit"
       => /\ ~enabled(serial_comm)
          /\ call_function = <<>>
          /\ call_data = <<>>
          /\ tx = <<>>
          /\ sent = 0
          /\ ~dropped

C16_Witness ==
  /\ pc = "call_exit"
  /\ ready
  /\ record = Rec(S_INFO, S_hi)
  /\ call_data = <<4, 73, 78, 70, 79, 2, 0, 104, 105>>
  /\ sent = 1

\* C17: when read is invoked while no byte is in the reader (and the
\* transport read does not fail), it returns without waiting and with no
\* side effect: nothing is consumed, nothing is written, neither a frame nor
\* a diagnostic, no handler runs, and ready and the indicator are unchanged.
C17_EmptyReadNoEffect ==
  /\ []((pc \in ReadPcs \cup {"panic", "oom"} /\ rx0 = <<>> /\ ~failed)
          => /\ pc \in {"read", "exit"}
             /\ rx = <<>>
             /\ tx = tx0
             /\ invoked = <<>>
             /\ ready = ready0
             /\ led = led0)
  /\ [][(pc = "read" /\ rx = <<>> /\ pc' # pc /\ ~failed')
          => /\ pc' = "exit"
             /\ UNCHANGED <<rx, tx, sent, dropped, ready, led, invoked, cs>>]_vars

C17_Witness ==
  /\ pc = "exit"
  /\ rx0 = <<>>
  /\ ~failed
  /\ ready
  /\ tx = tx0
  /\ wire # <<>>

\* the well-formed frames the host sends, as <<name, payload>>
HostFrames ==
  {<<S_set_led, p>> : p \in LedPayloads}
  \cup {<<S_reset, <<>>>>}
  \cup {<<n, <<5>>>> : n \in UnknownNames}

\* C18: each blocking sub-read consumes exactly the bytes requested, however
\* the frame's bytes become available: when read starts with the beginning
\* of a well-formed frame in the reader (any split of it), the name it has
\* read equals the frame's name, the payload length is decoded from both
\* length bytes, the payload equals the frame's payload, and at dispatch the
\* whole frame, End-marker included, has been consumed.
C18_SubReadsExact ==
  \A f \in HostFrames :
    (pc \in ReadPcs /\ ~failed /\ rx0 # <<>>
       /\ IsPrefix(rx0, FunctionFrame(f[1], f[2])))
      => /\ pc \in {"function", "data_len", "data", "end", "dispatch"}
              => function_len = Len(f[1])
         /\ pc \in {"data_len", "data", "end", "dispatch"} => function = f[1]
         /\ pc \in {"data", "end", "dispatch"} => data_len = Len(f[2])
         /\ pc \in {"end", "dispatch"} => data = f[2]
         /\ pc = "dispatch" => rx0 = FunctionFrame(f[1], f[2]) /\ rx = <<>>

\* C19: no shared cell is borrowed mutably while another borrow of it is
\* outstanding: along every nested call chain of read, the cells the next
\* step borrows (directly, or through a log macro and call) are not among
\* those an outer operation still holds, so no RefCell borrow panic is
\* reachable; between operations nothing is borrowed.
C19_NoDoubleBorrow ==
  /\ NextBorrows \cap borrowed = {}
  /\ LogBorrows(serial_comm, ready) \cap BorrowedWhileLogging = {}
  /\ pc \in ReadPcs => ReadBorrows \subseteq borrowed
  /\ pc = "ready_set" => borrowed = ReadBorrows \cup ReadyBorrows
  /\ pc = "reset_loop" => borrowed = ReadBorrows \cup HardwareBorrows
  /\ pc \in {"start", "idle", "call", "call_exit"} => borrowed = {}

C19_Witness ==
  /\ pc = "ready_set"
  /\ borrowed = {"rx", "tx"}
  /\ NextBorrows = {"ready"}

=============================================================================
